---- MODULE Spec2Model ----
(***************************************************************************)
(* Model of src/lists.rs of tod: the batch operations on a list of tasks   *)
(* selected by a Flag (view, prioritize, timebox, process, label), the     *)
(* concurrent comment fetcher behind process, and the file importer.       *)
(*                                                                         *)
(* One behaviour is one run of one operation.  The remote gateway          *)
(* (module todoist), the interactive walkers (tasks::set_priority,        *)
(* tasks::timebox_task, tasks::process_task, tasks::label_task) and the    *)
(* tokio runtime are the environment: their outcomes are drawn             *)
(* nondeterministically.                                                   *)
(***************************************************************************)
EXTENDS Integers, Sequences, FiniteSets, TLC

\* Longest task list the gateway returns in a run.
MaxTasks == 2
\* Longest file content (in characters) given to import.
MaxFileLen == 5

----------------------------------------------------------------------------
(* Sequence helpers *)

Range(s) == {s[k] : k \in 1..Len(s)}

RECURSIVE SelectSeqBy(_, _)
\* Iterator::filter(..).collect(): the kept elements, in order.
\* keep is a set of positions of s.
SelectSeqBy(s, keep) ==
    IF s = <<>> THEN <<>>
    ELSE LET n == Len(s)
             front == SelectSeqBy(SubSeq(s, 1, n - 1), keep)
         IN  IF n \in keep THEN Append(front, s[n]) ELSE front

RECURSIVE Flatten(_)
\* .flat_map(|(_, tasks)| tasks.to_owned()).collect::<Vec<Task>>()
Flatten(groups) ==
    IF groups = <<>> THEN <<>>
    ELSE Head(groups).tasks \o Flatten(Tail(groups))

----------------------------------------------------------------------------
(* Flag and its Display *)

TheProject == [name |-> "myproject", url |-> "https://app.todoist.com/app/project/123"]

ProjectFlag == [kind |-> "Project", project |-> TheProject, filter |-> ""]
FilterFlag == [kind |-> "Filter", project |-> TheProject, filter |-> "today"]

Flag == {ProjectFlag, FilterFlag}

\* impl Display for Project: the name, a newline, the web URL.
ProjectFmt(project) == project.name \o "\n" \o project.url

\* impl Display for Flag
FlagFmt(f) ==
    IF f.kind = "Project" THEN ProjectFmt(f.project)
    ELSE "'" \o f.filter \o "'"

----------------------------------------------------------------------------
(* Tasks *)

TaskIds == 1..MaxTasks

\* priority: "None" is Priority::None; duration: 0 is Option::None;
\* future: the task is scheduled for a future date; parent_id: 0 is None.
MkTask(id, priority, duration, future, parent_id) ==
    [id |-> id, priority |-> priority, duration |-> duration,
     future |-> future, parent_id |-> parent_id]

\* The attributes an operation reads (its filter and the sort key) vary;
\* the others stay at their defaults.
TasksOf(o, id) ==
    CASE o = "process" ->
           {MkTask(id, "None", 0, fu, pa) :
               fu \in BOOLEAN, pa \in (0..MaxTasks) \ {id}}
      [] o = "timebox" ->
           {MkTask(id, pr, du, FALSE, 0) : pr \in {"None", "High"}, du \in {0, 15}}
      [] OTHER ->
           {MkTask(id, pr, 0, fu, 0) : pr \in {"None", "High"}, fu \in BOOLEAN}

\* The task lists a listing call can return for operation o: n tasks with
\* the distinct ids 1..n.
TaskLists(o) ==
    UNION {{s \in [1..n -> UNION {TasksOf(o, id) : id \in TaskIds}] :
               \A k \in 1..n : s[k].id = k} : n \in 0..MaxTasks}

\* todoist::all_tasks_by_filters: one (query, tasks) group per query of the
\* filter string; the groups partition the matching tasks.
GroupingsOf(list) ==
    {<<[query |-> "today", tasks |-> list]>>} \cup
    {<<[query |-> "today", tasks |-> SubSeq(list, 1, k)],
       [query |-> "p1", tasks |-> SubSeq(list, k + 1, Len(list))]>> :
         k \in 0..Len(list)}

----------------------------------------------------------------------------
(* Collaborators of lists.rs in the tasks and color modules *)

PriorityValue(priority) == IF priority = "None" THEN 2 ELSE 4
DateValue(future) == IF future THEN 0 ELSE 50

\* Task::value: the sort key of SortOrder::Value.
Value(task) == PriorityValue(task.priority) + DateValue(task.future)

RECURSIVE InsertByValue(_, _)
\* Inserts task behind every element whose value is at least its own.
InsertByValue(sorted, task) ==
    IF sorted = <<>> THEN <<task>>
    ELSE IF Value(Head(sorted)) >= Value(task)
         THEN <<Head(sorted)>> \o InsertByValue(Tail(sorted), task)
         ELSE <<task>> \o sorted

RECURSIVE Sort(_)
\* tasks::sort: a stable sort, highest value first.
Sort(list) ==
    IF list = <<>> THEN <<>>
    ELSE InsertByValue(Sort(SubSeq(list, 1, Len(list) - 1)), list[Len(list)])

\* tasks::filter_not_in_future: drops the tasks scheduled for a future date.
filter_not_in_future(list) ==
    SelectSeqBy(list, {k \in 1..Len(list) : ~list[k].future})

\* tasks::reject_parent_tasks: drops every task that another task of the
\* list names as its parent.
reject_parent_tasks(list) ==
    LET parent_ids == {list[k].parent_id : k \in 1..Len(list)} \ {0}
    IN  SelectSeqBy(list, {k \in 1..Len(list) : list[k].id \notin parent_ids})

\* color::green_string: the text itself when colours are off (as in the
\* tests, which compare the result with the plain message).
green_string(text) == text

\* todoist::all_comments of a task, when the call succeeds.
CommentsOf(task) == <<[task_id |-> task.id, content |-> "note"]>>

----------------------------------------------------------------------------
(* The task list each operation walks: lines 59-70, 93-104, 129-146, 228-235 *)

\* A slip: the priority filter of the Project arm left out.
PrioritizeTasksUnfiltered(f, response) ==
    IF f.kind = "Project" THEN response ELSE Flatten(response)

PrioritizeTasks(f, response) ==
    IF f.kind = "Project"
    THEN SelectSeqBy(response,
                     {k \in 1..Len(response) : response[k].priority = "None"})
    ELSE Flatten(response)

TimeboxTasks(f, response) ==
    IF f.kind = "Project"
    THEN SelectSeqBy(response,
                     {k \in 1..Len(response) : response[k].duration = 0})
    ELSE Flatten(response)

\* A slip: the parents rejected in the Project arm only.
ProcessTasksRejectInProjectOnly(f, response) ==
    IF f.kind = "Project"
    THEN reject_parent_tasks(filter_not_in_future(response))
    ELSE Flatten(response)

ProcessTasks(f, response) ==
    reject_parent_tasks(IF f.kind = "Project"
                        THEN filter_not_in_future(response)
                        ELSE Flatten(response))

\* A slip: the filter of prioritize carried over to label.
LabelTasksUnprioritizedOnly(f, response) ==
    LET list == IF f.kind = "Project" THEN response ELSE Flatten(response)
    IN  SelectSeqBy(list, {k \in 1..Len(list) : list[k].priority = "None"})

LabelTasks(f, response) ==
    IF f.kind = "Project" THEN response ELSE Flatten(response)

\* let with_project = match flag ...
WithProject(f) == f.kind = "Filter"

EmptyText(f) == "No tasks for " \o FlagFmt(f)
SuccessText(verb, f) == "Successfully " \o verb \o " " \o FlagFmt(f)

----------------------------------------------------------------------------
(* State *)

VARIABLES
    op,         \* the operation of this run
    flag,       \* its selector
    response,   \* what the listing call returns when it succeeds
    listing,    \* outcome of the task listing call: "none" before it
    pc,         \* position of the operation
    i,          \* iterations of the walk loop completed
    tasks,      \* the filtered and sorted task list
    fetches,    \* process: the spawned comment fetches, one slot per handle
    overtaken,  \* process: a fetch ended while one spawned before it ran
    comments,   \* process: the output of fetch_comments_for_tasks
    walked,     \* the walker calls made so far, in order, with what
                \* each was given and what it returned
    active,     \* the walker call begun and not yet returned, if any
    stored,     \* version of the configuration file a reload would read
    handles,    \* the mutation handles pushed so far, with their state
    result,     \* the operation's return value
    content,    \* import: the file content
    lines,      \* import: the non-empty lines
    created,    \* import: the quick-create calls issued so far
    call,       \* import: quick-create calls issued and not yet returned
    failed      \* import: the number of the call that failed, 0 if none

vars == <<op, flag, response, listing, pc, i, tasks, fetches, overtaken,
          comments, walked, active, stored, handles, result, content, lines,
          created, call, failed>>

Running == [status |-> "running", text |-> ""]
Ok(text) == [status |-> "Ok", text |-> text]
Err(source) == [status |-> "Err", text |-> source]

BatchOps == {"view", "prioritize", "timebox", "process", "label"}

FileChars == {"a", "b", "\n"}

FileContents == UNION {[1..n -> FileChars] : n \in 0..MaxFileLen}

ResponsesOf(o, f) ==
    IF f.kind = "Project" THEN TaskLists(o)
    ELSE UNION {GroupingsOf(list) : list \in TaskLists(o)}

Init ==
    /\ op \in BatchOps \cup {"import"}
    /\ flag \in (IF op = "import" THEN {ProjectFlag} ELSE Flag)
    /\ response \in (IF op = "import" THEN {<<>>} ELSE ResponsesOf(op, flag))
    /\ content \in (IF op = "import" THEN FileContents ELSE {<<>>})
    /\ listing = "none"
    /\ pc = "start"
    /\ i = 0
    /\ active = <<>>
    /\ stored = 0
    /\ failed = 0
    /\ tasks = <<>>
    /\ fetches = <<>>
    /\ overtaken = FALSE
    /\ comments = <<>>
    /\ walked = <<>>
    /\ handles = <<>>
    /\ result = Running
    /\ lines = <<>>
    /\ created = <<>>
    /\ call = 0

----------------------------------------------------------------------------
(* Shared steps of prioritize, timebox, process and label *)

batchVars == <<i, tasks, fetches, overtaken, comments, walked, handles>>
importVars == <<content, lines, created, call>>

Return(value) ==
    /\ result' = value
    /\ pc' = "done"

Handle(task) == [id |-> task.id, state |-> "inflight"]

Settled(hs) == \A k \in 1..Len(hs) : hs[k].state # "inflight"

\* A slip: the call of tasks::sort left out, the tasks walked as fetched.
SelectUnsorted(o, selected, next) ==
    /\ pc = "start"
    /\ op = o
    /\ \/ /\ listing' = "err"
          /\ Return(Err("todoist"))
          /\ UNCHANGED batchVars
       \/ /\ listing' = "ok"
          /\ selected = <<>>
          /\ Return(Ok(green_string(EmptyText(flag))))
          /\ UNCHANGED batchVars
       \/ /\ listing' = "ok"
          /\ selected # <<>>
          /\ tasks' = selected
          /\ pc' = next
          /\ UNCHANGED <<i, fetches, overtaken, comments, walked, handles, result>>
    /\ UNCHANGED <<op, flag, response, stored, active, failed, importVars>>

\* A slip: the error of the listing swallowed (unwrap_or_default), the run
\* going on with no task.
SelectSwallowsListingError(o, selected, next) ==
    /\ pc = "start"
    /\ op = o
    /\ \/ /\ listing' = "err"
          /\ Return(Ok(green_string(EmptyText(flag))))
          /\ UNCHANGED batchVars
       \/ /\ listing' = "ok"
          /\ selected = <<>>
          /\ Return(Ok(green_string(EmptyText(flag))))
          /\ UNCHANGED batchVars
       \/ /\ listing' = "ok"
          /\ selected # <<>>
          /\ tasks' = Sort(selected)
          /\ pc' = next
          /\ UNCHANGED <<i, fetches, overtaken, comments, walked, handles, result>>
    /\ UNCHANGED <<op, flag, response, stored, active, failed, importVars>>

\* The listing call and what follows it up to the walk loop: the error of
\* the listing is returned, an empty selection returns the empty text,
\* anything else is sorted and walked (process fetches the comments first).
Select(o, selected, next) ==
    /\ pc = "start"
    /\ op = o
    /\ \/ /\ listing' = "err"
          /\ Return(Err("todoist"))
          /\ UNCHANGED batchVars
       \/ /\ listing' = "ok"
          /\ selected = <<>>
          /\ Return(Ok(green_string(EmptyText(flag))))
          /\ UNCHANGED batchVars
       \/ /\ listing' = "ok"
          /\ selected # <<>>
          /\ tasks' = Sort(selected)
          /\ pc' = next
          /\ UNCHANGED <<i, fetches, overtaken, comments, walked, handles, result>>
    /\ UNCHANGED <<op, flag, response, stored, active, failed, importVars>>

\* After an iteration of the walk loop that does not return: the loop goes
\* on, or ends and the handles are joined.
Advance(total) ==
    /\ i' = i + 1
    /\ pc' = IF i + 1 = total THEN "joining" ELSE "walking"
    /\ UNCHANGED result

\* A slip: the mutations queued so far awaited before the next task.
WalkerCallAfterMutations(task, cmts, with_project, reloads) ==
    /\ active = <<>>
    /\ Settled(handles)
    /\ \/ /\ reloads
          /\ Return(Err("config"))
          /\ UNCHANGED active
       \/ /\ active' = <<[task |-> task, comments |-> cmts,
                          with_project |-> with_project,
                          config |-> IF reloads THEN stored ELSE 0,
                          latest |-> stored]>>
          /\ UNCHANGED <<pc, result>>
    /\ UNCHANGED <<i, walked, handles, stored>>

\* The loop reaches a task. timebox and process reload the configuration
\* first (reloads) and return the error of the reload; prioritize and
\* label pass the configuration they were called with, version 0. Then the
\* walker is called: `config` is the version it gets, `latest` the stored
\* one at that moment.
WalkerCall(task, cmts, with_project, reloads) ==
    /\ active = <<>>
    /\ \/ /\ reloads
          /\ Return(Err("config"))
          /\ UNCHANGED active
       \/ /\ active' = <<[task |-> task, comments |-> cmts,
                          with_project |-> with_project,
                          config |-> IF reloads THEN stored ELSE 0,
                          latest |-> stored]>>
          /\ UNCHANGED <<pc, result>>
    /\ UNCHANGED <<i, walked, handles, stored>>

\* The walker call in progress, with what it returned.
Presented(outcome) ==
    [task |-> active[1].task, comments |-> active[1].comments,
     with_project |-> active[1].with_project, outcome |-> outcome,
     config |-> active[1].config, latest |-> active[1].latest]

\* A slip: the abort sentinel taken for "nothing to queue", the loop going on.
WalkTaskSkipsOnNone(outcome, changed, total) ==
    /\ active # <<>>
    /\ active' = <<>>
    /\ walked' = Append(walked, Presented(outcome))
    /\ CASE outcome = "handle" ->
              /\ handles' = Append(handles, Handle(active[1].task))
              /\ stored' = IF changed THEN stored + 1 ELSE stored
              /\ Advance(total)
         [] outcome = "none" ->
              /\ ~changed
              /\ Advance(total)
              /\ UNCHANGED <<handles, stored>>
         [] outcome = "error" ->
              /\ ~changed
              /\ Return(Err("walker"))
              /\ UNCHANGED <<i, handles, stored>>

\* A slip: the queued mutations joined before "Exited" is returned.
WalkTaskJoinsOnNone(outcome, changed, total) ==
    /\ active # <<>>
    /\ active' = <<>>
    /\ walked' = Append(walked, Presented(outcome))
    /\ CASE outcome = "handle" ->
              /\ handles' = Append(handles, Handle(active[1].task))
              /\ stored' = IF changed THEN stored + 1 ELSE stored
              /\ Advance(total)
         [] outcome = "none" ->
              /\ ~changed
              /\ Settled(handles)
              /\ Return(Ok(green_string("Exited")))
              /\ UNCHANGED <<i, handles, stored>>
         [] outcome = "error" ->
              /\ ~changed
              /\ Return(Err("walker"))
              /\ UNCHANGED <<i, handles, stored>>

\* A slip: the error of the walker dropped, the loop going on.
WalkTaskGoesOnAfterError(outcome, changed, total) ==
    /\ active # <<>>
    /\ active' = <<>>
    /\ walked' = Append(walked, Presented(outcome))
    /\ CASE outcome = "handle" ->
              /\ handles' = Append(handles, Handle(active[1].task))
              /\ stored' = IF changed THEN stored + 1 ELSE stored
              /\ Advance(total)
         [] outcome = "none" ->
              /\ ~changed
              /\ Return(Ok(green_string("Exited")))
              /\ UNCHANGED <<i, handles, stored>>
         [] outcome = "error" ->
              /\ ~changed
              /\ Advance(total)
              /\ UNCHANGED <<handles, stored>>

\* The walker returns: a handle, which is queued (outcome "handle"), the
\* abort sentinel ("none") or an error ("error"). What the user did in the
\* walker may have changed the stored configuration (changed).
WalkTask(outcome, changed, total) ==
    /\ active # <<>>
    /\ active' = <<>>
    /\ walked' = Append(walked, Presented(outcome))
    /\ CASE outcome = "handle" ->
              /\ handles' = Append(handles, Handle(active[1].task))
              /\ stored' = IF changed THEN stored + 1 ELSE stored
              /\ Advance(total)
         [] outcome = "none" ->
              /\ ~changed
              /\ Return(Ok(green_string("Exited")))
              /\ UNCHANGED <<i, handles, stored>>
         [] outcome = "error" ->
              /\ ~changed
              /\ Return(Err("walker"))
              /\ UNCHANGED <<i, handles, stored>>

\* A slip: the success message returned without awaiting the handles.
JoinWithoutWaiting(hs) == TRUE

\* future::join_all(handles).await ends once every handle has.
JoinReady(hs) == Settled(hs)

\* A slip: try_join_all in place of join_all, a failed mutation becoming
\* the operation's error.
JoinFailsOnFailedMutation(o, verb) ==
    /\ pc = "joining"
    /\ op = o
    /\ JoinReady(handles)
    /\ IF \E k \in 1..Len(handles) : handles[k].state = "failed"
       THEN Return(Err("mutation"))
       ELSE Return(Ok(green_string(SuccessText(verb, flag))))
    /\ UNCHANGED <<op, flag, response, listing, stored, active, failed, batchVars, importVars>>

\* future::join_all(handles).await; Ok(color::green_string(&success))
Join(o, verb) ==
    /\ pc = "joining"
    /\ op = o
    /\ JoinReady(handles)
    /\ Return(Ok(green_string(SuccessText(verb, flag))))
    /\ UNCHANGED <<op, flag, response, listing, stored, active, failed, batchVars, importVars>>

\* A spawned mutation runs to its end, whatever the operation is doing.
MutationSettle ==
    \E k \in 1..Len(handles), outcome \in {"ok", "failed"} :
        /\ handles[k].state = "inflight"
        /\ handles' = [handles EXCEPT ![k].state = outcome]
        /\ UNCHANGED <<op, flag, response, listing, stored, active, failed, pc, i, tasks, fetches, overtaken,
                       comments, walked, result, importVars>>

----------------------------------------------------------------------------
(* prioritize: lines 58-89 *)

PrioritizeSelect == Select("prioritize", PrioritizeTasks(flag, response), "walking")

PrioritizeWalk ==
    /\ pc = "walking"
    /\ op = "prioritize"
    /\ WalkerCall(tasks[i + 1], <<>>, FALSE, FALSE)
    /\ UNCHANGED <<op, flag, response, listing, failed, tasks, fetches, overtaken, comments, importVars>>

PrioritizeReturn ==
    /\ pc = "walking"
    /\ op = "prioritize"
    /\ \E outcome \in {"handle", "error"}, changed \in BOOLEAN :
           WalkTask(outcome, changed, Len(tasks))
    /\ UNCHANGED <<op, flag, response, listing, failed, tasks, fetches, overtaken, comments, importVars>>

PrioritizeJoin == Join("prioritize", "prioritized")

(* timebox: lines 92-125 *)

TimeboxSelect == Select("timebox", TimeboxTasks(flag, response), "walking")

TimeboxWalk ==
    /\ pc = "walking"
    /\ op = "timebox"
    /\ WalkerCall(tasks[i + 1], <<>>, FALSE, TRUE)
    /\ UNCHANGED <<op, flag, response, listing, failed, tasks, fetches, overtaken, comments, importVars>>

TimeboxReturn ==
    /\ pc = "walking"
    /\ op = "timebox"
    /\ \E outcome \in {"handle", "none", "error"}, changed \in BOOLEAN :
           WalkTask(outcome, changed, Len(tasks))
    /\ UNCHANGED <<op, flag, response, listing, failed, tasks, fetches, overtaken, comments, importVars>>

TimeboxJoin == Join("timebox", "timeboxed")

(* label: lines 222-253 *)

LabelSelect == Select("label", LabelTasks(flag, response), "walking")

LabelWalk ==
    /\ pc = "walking"
    /\ op = "label"
    /\ WalkerCall(tasks[i + 1], <<>>, FALSE, FALSE)
    /\ UNCHANGED <<op, flag, response, listing, failed, tasks, fetches, overtaken, comments, importVars>>

LabelReturn ==
    /\ pc = "walking"
    /\ op = "label"
    /\ \E outcome \in {"handle", "error"}, changed \in BOOLEAN :
           WalkTask(outcome, changed, Len(tasks))
    /\ UNCHANGED <<op, flag, response, listing, failed, tasks, fetches, overtaken, comments, importVars>>

LabelJoin == Join("label", "labeled")

----------------------------------------------------------------------------
(* fetch_comments_for_tasks: lines 202-219 *)

Pending == [kind |-> "pending"]

\* A slip: the units share the loop's task instead of owning a clone, and
\* report the task spawned last.
FetchOutputSharedTask(k, outcome) ==
    IF outcome = "join_error" THEN [kind |-> "JoinError"]
    ELSE [kind |-> "Ok", task |-> tasks[Len(fetches)], result |-> outcome]

\* What the unit spawned for the k-th task hands to its JoinHandle: the
\* pair of its own task and the result of all_comments, or a JoinError when
\* the unit does not run to completion.
FetchOutput(k, outcome) ==
    IF outcome = "join_error" THEN [kind |-> "JoinError"]
    ELSE [kind |-> "Ok", task |-> tasks[k], result |-> outcome]

\* for task in tasks { handles.push(tokio::spawn(..)) }, one task per step
FetchSpawn ==
    /\ pc = "fetching"
    /\ Len(fetches) < Len(tasks)
    /\ fetches' = Append(fetches, Pending)
    /\ UNCHANGED <<op, flag, response, listing, stored, active, failed, pc, i, tasks, overtaken, comments,
                   walked, handles, result, importVars>>

\* A spawned fetch ends, in any order among the spawned ones.
FetchSettle ==
    \E k \in 1..Len(fetches), outcome \in {"Ok", "Err", "join_error"} :
        /\ pc = "fetching"
        /\ fetches[k] = Pending
        /\ fetches' = [fetches EXCEPT ![k] = FetchOutput(k, outcome)]
        /\ overtaken' = (overtaken \/ \E j \in 1..(k - 1) : fetches[j] = Pending)
        /\ UNCHANGED <<op, flag, response, listing, stored, active, failed, pc, i, tasks, comments, walked,
                       handles, result, importVars>>

\* A slip: the walk begun once the fetches are spawned, not once they ended.
FetchJoinAllWithoutWaiting ==
    /\ pc = "fetching"
    /\ Len(fetches) = Len(tasks)
    /\ comments' = fetches
    /\ pc' = "walking"
    /\ UNCHANGED <<op, flag, response, listing, stored, active, failed, i, tasks, fetches, overtaken, walked,
                   handles, result, importVars>>

\* future::join_all(handles).await: the outputs in the order of the handles,
\* once every one of them is there.
FetchJoinAll ==
    /\ pc = "fetching"
    /\ Len(fetches) = Len(tasks)
    /\ \A k \in 1..Len(fetches) : fetches[k] # Pending
    /\ comments' = fetches
    /\ pc' = "walking"
    /\ UNCHANGED <<op, flag, response, listing, stored, active, failed, i, tasks, fetches, overtaken, walked,
                   handles, result, importVars>>

(* process: lines 128-200 *)

ProcessSelect == Select("process", ProcessTasks(flag, response), "fetching")

\* The comments and the show-project flag process_task gets for an entry
\* of tasks_with_comments: lines 161-192.
ProcessComments(entry) == IF entry.result = "Ok" THEN CommentsOf(entry.task) ELSE <<>>
ProcessWithProject(entry) == IF entry.result = "Ok" THEN WithProject(flag) ELSE FALSE

\* A slip: a task whose comments could not be fetched skipped like one
\* whose fetch did not run to completion.
ProcessWalkSkipsFailedFetch ==
    /\ pc = "walking"
    /\ op = "process"
    /\ LET entry == comments[i + 1]
       IN  \/ /\ entry.kind = "Ok"
              /\ entry.result = "Ok"
              /\ WalkerCall(entry.task, ProcessComments(entry),
                            ProcessWithProject(entry), TRUE)
           \/ /\ entry.kind = "JoinError" \/ entry.result = "Err"
              /\ active = <<>>
              /\ Advance(Len(comments))
              /\ UNCHANGED <<walked, handles, active, stored>>
    /\ UNCHANGED <<op, flag, response, listing, failed, tasks, fetches, overtaken, comments, importVars>>

\* A slip: the JoinError of a fetch returned as the error of process.
ProcessWalkAbortsOnJoinError ==
    /\ pc = "walking"
    /\ op = "process"
    /\ LET entry == comments[i + 1]
       IN  \/ /\ entry.kind = "Ok"
              /\ WalkerCall(entry.task, ProcessComments(entry),
                            ProcessWithProject(entry), TRUE)
           \/ /\ entry.kind = "JoinError"
              /\ active = <<>>
              /\ Return(Err("join"))
              /\ UNCHANGED <<i, walked, handles, active, stored>>
    /\ UNCHANGED <<op, flag, response, listing, failed, tasks, fetches, overtaken, comments, importVars>>

\* The loop reaches an entry of tasks_with_comments: for an Ok entry the
\* configuration is reloaded and process_task is called, a JoinError is
\* printed and the loop goes on.
ProcessWalk ==
    /\ pc = "walking"
    /\ op = "process"
    /\ LET entry == comments[i + 1]
       IN  \/ /\ entry.kind = "Ok"
              /\ WalkerCall(entry.task, ProcessComments(entry),
                            ProcessWithProject(entry), TRUE)
           \/ /\ entry.kind = "JoinError"
              /\ active = <<>>
              /\ Advance(Len(comments))
              /\ UNCHANGED <<walked, handles, active, stored>>
    /\ UNCHANGED <<op, flag, response, listing, failed, tasks, fetches, overtaken, comments, importVars>>

\* process_task returns.
ProcessReturn ==
    /\ pc = "walking"
    /\ op = "process"
    /\ \E outcome \in {"handle", "none", "error"}, changed \in BOOLEAN :
           WalkTask(outcome, changed, Len(comments))
    /\ UNCHANGED <<op, flag, response, listing, failed, tasks, fetches, overtaken, comments, importVars>>

ProcessJoin == Join("process", "processed")

----------------------------------------------------------------------------
(* view: lines 31-55 *)

\* Task::fmt with FormatType::List and no comments, when it succeeds.
TaskText(task) == "- task " \o ToString(task.id)

RECURSIVE TaskLinesText(_)
\* for task in tasks::sort(..) { buffer.push('\n'); buffer.push_str(&text) }
TaskLinesText(list) ==
    IF list = <<>> THEN ""
    ELSE "\n" \o TaskText(Head(list)) \o TaskLinesText(Tail(list))

RECURSIVE ViewBuffer(_)
\* for (query, tasks) in list_of_tasks { .. }
ViewBuffer(groups) ==
    IF groups = <<>> THEN ""
    ELSE "\n" \o green_string("Tasks for " \o Head(groups).query) \o "\n"
         \o TaskLinesText(Sort(Head(groups).tasks)) \o ViewBuffer(Tail(groups))

\* let list_of_tasks = match flag.clone() { .. }
ViewGroups(f, resp) ==
    IF f.kind = "Project"
    THEN <<[query |-> f.project.name, tasks |-> resp]>>
    ELSE resp

\* The listing may fail, and so may the formatting of a task; otherwise the
\* buffer is returned.
View ==
    /\ pc = "start"
    /\ op = "view"
    /\ \/ /\ listing' = "err"
          /\ Return(Err("todoist"))
       \/ /\ listing' = "ok"
          /\ Flatten(ViewGroups(flag, response)) # <<>>
          /\ Return(Err("fmt"))
       \/ /\ listing' = "ok"
          /\ Return(Ok(ViewBuffer(ViewGroups(flag, response))))
    /\ UNCHANGED <<op, flag, response, stored, active, failed, batchVars, importVars>>

----------------------------------------------------------------------------
(* import: lines 255-272 *)

RECURSIVE Split(_)
\* str::split('\n'): the pieces between the newlines, empty ones included;
\* the empty text gives one empty piece.
Split(text) ==
    IF \A k \in 1..Len(text) : text[k] # "\n" THEN <<text>>
    ELSE LET at == CHOOSE k \in 1..Len(text) :
                       /\ text[k] = "\n"
                       /\ \A j \in 1..(k - 1) : text[j] # "\n"
         IN  <<SubSeq(text, 1, at - 1)>> \o Split(SubSeq(text, at + 1, Len(text)))

\* A slip: the filter on empty lines left out.
NonEmptyKeepsAll(pieces) == pieces

\* .filter(|s| !s.is_empty()).collect()
NonEmpty(pieces) == SelectSeqBy(pieces, {k \in 1..Len(pieces) : pieces[k] # <<>>})

ImportLines(text) == NonEmpty(Split(text))

\* fs::File::open(file_path).await?.read_to_string(&mut lines).await?
ImportRead ==
    /\ pc = "start"
    /\ op = "import"
    /\ \/ /\ Return(Err("io"))
          /\ UNCHANGED lines
       \/ /\ lines' = ImportLines(content)
          /\ pc' = "creating"
          /\ UNCHANGED result
    /\ UNCHANGED <<op, flag, response, listing, stored, active, failed, batchVars, content, created, call>>

\* The line the loop of lines 267-269 hands to quick_create_task next.
NextLine(done) == lines[Len(done) + 1]

\* todoist::quick_create_task(config, &line, None) is called ...
ImportCall ==
    /\ pc = "creating"
    /\ call = 0
    /\ Len(created) < Len(lines)
    /\ created' = Append(created, NextLine(created))
    /\ call' = call + 1
    /\ UNCHANGED <<op, flag, response, listing, stored, active, failed, pc, batchVars, result, content, lines>>

\* A slip: the error of a call kept for the end, the loop going on.
ImportAwaitGoesOn ==
    /\ pc = "creating"
    /\ call > 0
    /\ call' = call - 1
    /\ \/ UNCHANGED <<pc, result, failed>>
       \/ /\ failed' = Len(created)
          /\ result' = Err("todoist")
          /\ UNCHANGED pc
    /\ UNCHANGED <<op, flag, response, listing, stored, active, batchVars, content, lines, created>>

\* ... and awaited: its error ends the import.
ImportAwait ==
    /\ pc = "creating"
    /\ call > 0
    /\ call' = call - 1
    /\ \/ UNCHANGED <<pc, result, failed>>
       \/ /\ failed' = Len(created)
          /\ Return(Err("todoist"))
    /\ UNCHANGED <<op, flag, response, listing, stored, active, batchVars, content, lines, created>>

Confirmation == "OK"

\* Ok("✓".into()): the check mark, written here as the token "OK".
ImportDone ==
    /\ pc = "creating"
    /\ call = 0
    /\ Len(created) = Len(lines)
    /\ Return(Ok(Confirmation))
    /\ UNCHANGED <<op, flag, response, listing, stored, active, failed, batchVars, importVars>>

----------------------------------------------------------------------------

Next ==
    \/ View
    \/ PrioritizeSelect \/ PrioritizeWalk \/ PrioritizeReturn \/ PrioritizeJoin
    \/ TimeboxSelect \/ TimeboxWalk \/ TimeboxReturn \/ TimeboxJoin
    \/ ProcessSelect \/ FetchSpawn \/ FetchSettle \/ FetchJoinAll
    \/ ProcessWalk \/ ProcessReturn \/ ProcessJoin
    \/ LabelSelect \/ LabelWalk \/ LabelReturn \/ LabelJoin
    \/ MutationSettle
    \/ ImportRead \/ ImportCall \/ ImportAwait \/ ImportDone

Spec == Init /\ [][Next]_vars

TypeOK ==
    /\ op \in BatchOps \cup {"import"}
    /\ flag \in Flag
    /\ pc \in {"start", "fetching", "walking", "joining", "creating", "done"}
    /\ i \in 0..MaxTasks
    /\ Len(tasks) <= MaxTasks
    /\ result.status \in {"running", "Ok", "Err"}
    /\ call \in 0..MaxFileLen
    /\ Len(active) <= 1
    /\ stored \in 0..MaxTasks
    /\ failed \in 0..MaxFileLen
    /\ listing \in {"none", "ok", "err"}

----------------------------------------------------------------------------
(* Vocabulary of the properties *)

WalkOps == {"prioritize", "timebox", "process", "label"}

\* The selector as the user reads it.
SelectorText ==
    IF flag.kind = "Project"
    THEN "myproject\nhttps://app.todoist.com/app/project/123"
    ELSE "'today'"

NoTasksText == "No tasks for " \o SelectorText

SuccessfullyText ==
    CASE op = "prioritize" -> "Successfully prioritized " \o SelectorText
      [] op = "timebox" -> "Successfully timeboxed " \o SelectorText
      [] op = "process" -> "Successfully processed " \o SelectorText
      [] op = "label" -> "Successfully labeled " \o SelectorText
      [] OTHER -> "(no success message)"

Succeeded == result = [status |-> "Ok", text |-> SuccessfullyText]
Exited == result = [status |-> "Ok", text |-> "Exited"]

\* The tasks the listing call returned, as a set.
Fetched ==
    IF flag.kind = "Project" THEN Range(response)
    ELSE UNION {Range(response[g].tasks) : g \in 1..Len(response)}

\* The fetched tasks the operation's own filtering keeps.
Kept ==
    CASE op = "prioritize" /\ flag.kind = "Project" ->
           {t \in Fetched : t.priority = "None"}
      [] op = "timebox" /\ flag.kind = "Project" ->
           {t \in Fetched : t.duration = 0}
      [] op = "process" ->
           LET candidates == IF flag.kind = "Project"
                             THEN {t \in Fetched : ~t.future}
                             ELSE Fetched
           IN  {t \in candidates : \A c \in candidates : c.parent_id # t.id}
      [] OTHER -> Fetched

\* Nothing has been asked of the gateway or the walker beyond the listing.
NothingIssued == walked = <<>> /\ active = <<>> /\ handles = <<>> /\ fetches = <<>>

----------------------------------------------------------------------------
(* C1 *)

----------------------------------------------------------------------------
(* C2 *)

\* C2: in timebox and process, a walker call that returned the abort
\* sentinel is the last walker call of the run: the operation has returned
\* "Exited", no task after it is presented, and the handles queued are
\* those of the walker calls before it, one each.
C2_AbortStopsWalk ==
    \A k \in 1..Len(walked) :
        walked[k].outcome = "none"
            => /\ op \in {"timebox", "process"}
               /\ k = Len(walked)
               /\ pc = "done"
               /\ Exited
               /\ Len(handles) = k - 1
               /\ \A j \in 1..(k - 1) : handles[j].id = walked[j].task.id

\* process: the walker aborted on the first of several tasks, the others
\* are never presented.
C2_Witness ==
    /\ op = "process"
    /\ Len(comments) = MaxTasks
    /\ Len(walked) = 1
    /\ walked[1].outcome = "none"
    /\ handles = <<>>
    /\ Exited

----------------------------------------------------------------------------
(* C3 *)

\* An entry of the fetcher's output stands for the task at position k.
EntryOf(entry, k) ==
    \/ entry.kind = "JoinError"
    \/ /\ entry.kind = "Ok"
       /\ entry.task = tasks[k]
       /\ entry.result \in {"Ok", "Err"}

\* C3: whatever the order in which the spawned fetches end and whichever of
\* them fail, the output of fetch_comments_for_tasks has one entry per input
\* task, and entry k is the result of input task k; while the fetches run,
\* a finished one sits in the slot of its own task.
C3_OneEntryPerTaskInOrder ==
    /\ \A k \in 1..Len(fetches) : fetches[k] = Pending \/ EntryOf(fetches[k], k)
    /\ (op = "process" /\ pc \in {"walking", "joining"})
           => /\ Len(comments) = Len(tasks)
              /\ \A k \in 1..Len(comments) : EntryOf(comments[k], k)
              /\ \A k, j \in 1..Len(comments) :
                     (k # j /\ comments[k].kind = "Ok" /\ comments[j].kind = "Ok")
                         => comments[k].task # comments[j].task

\* The fetches ended out of spawn order, one with an application error, and
\* the output still lists the tasks in input order.
C3_Witness ==
    /\ op = "process"
    /\ pc = "walking"
    /\ overtaken
    /\ Len(comments) = MaxTasks
    /\ comments[1].kind = "Ok" /\ comments[1].result = "Err"
    /\ comments[Len(comments)].kind = "Ok" /\ comments[Len(comments)].result = "Ok"
    /\ \A k \in 1..Len(comments) : comments[k].task = tasks[k]

----------------------------------------------------------------------------
(* C4 *)

\* C4: in prioritize, with a Project or a Filter selector alike, every task
\* presented to the priority walker, and every task that gets a set-priority
\* mutation, has Priority::None.
C4_OnlyUnprioritizedWalked ==
    op = "prioritize"
        => /\ \A k \in 1..Len(walked) : walked[k].task.priority = "None"
           /\ \A k \in 1..Len(handles) :
                  \A t \in Fetched : t.id = handles[k].id => t.priority = "None"

----------------------------------------------------------------------------
(* C5 *)

\* The tasks process has asked the comments of or presented to the walker.
ProcessTouched ==
    {walked[k].task : k \in 1..Len(walked)} \cup
    (IF pc = "start" THEN {} ELSE Range(tasks))

ProcessCandidates ==
    IF flag.kind = "Project" THEN {t \in Fetched : ~t.future} ELSE Fetched

----------------------------------------------------------------------------
(* C6 *)

\* The positions of the file content where a non-empty line begins.
LineStarts ==
    {k \in 1..Len(content) :
        content[k] # "\n" /\ (k = 1 \/ content[k - 1] = "\n")}

\* The line beginning at position k, up to the next newline or the end.
LineAt(k) ==
    LET last == CHOOSE e \in k..Len(content) :
                    /\ \A j \in k..e : content[j] # "\n"
                    /\ e = Len(content) \/ content[e + 1] = "\n"
    IN  SubSeq(content, k, last)

\* The position where the j-th non-empty line begins.
StartOfLine(j) ==
    CHOOSE k \in LineStarts : Cardinality({m \in LineStarts : m <= k}) = j

\* C6: import issues its quick-create calls for the non-empty lines of the
\* file, in file order and one at a time (never two calls in flight), none
\* for an empty line; it answers with the confirmation token exactly when
\* every non-empty line has had its call and every call has succeeded.
C6_ImportOneCallPerLine ==
    op = "import"
        => /\ Len(created) <= Cardinality(LineStarts)
           /\ \A j \in 1..Len(created) :
                  created[j] = LineAt(StartOfLine(j)) /\ created[j] # <<>>
           /\ call <= 1
           /\ (pc = "done" /\ result.status = "Ok")
                  => /\ result.text = "OK"
                     /\ Len(created) = Cardinality(LineStarts)
                     /\ call = 0

\* A file with a blank line between two different lines has been imported.
C6_Witness ==
    /\ op = "import"
    /\ \E k \in 1..(Len(content) - 1) : content[k] = "\n" /\ content[k + 1] = "\n"
    /\ Len(created) = 2
    /\ created[1] # created[2]
    /\ result = [status |-> "Ok", text |-> "OK"]

----------------------------------------------------------------------------
(* C7 *)

\* C7: label on a selector with tasks, when the listing and every walker
\* call succeed, ends with "Successfully labeled {selector}" after exactly
\* one label_task call, and one queued mutation, per fetched task; at no
\* time is a task labelled twice.
C7_LabelOncePerFetchedTask ==
    op = "label"
        => /\ \A k, j \in 1..Len(walked) :
                  walked[k].task.id = walked[j].task.id => k = j
           /\ (pc = "done" /\ result.status = "Ok" /\ Fetched # {})
                  => /\ Succeeded
                     /\ Len(walked) = Cardinality(Fetched)
                     /\ Len(handles) = Cardinality(Fetched)
                     /\ \A t \in Fetched :
                            /\ \E k \in 1..Len(walked) : walked[k].task = t
                            /\ \E k \in 1..Len(handles) : handles[k].id = t.id

\* The filter 'today' returned tasks with and without a priority, and all
\* of them were labelled.
C7_Witness ==
    /\ op = "label"
    /\ flag.kind = "Filter"
    /\ Cardinality(Fetched) = MaxTasks
    /\ \E t \in Fetched : t.priority # "None"
    /\ Len(handles) = MaxTasks
    /\ result = [status |-> "Ok", text |-> "Successfully labeled 'today'"]

----------------------------------------------------------------------------
(* C8 *)

\* The entry of the fetcher's output at position k is an application error.
FetchFailed(k) == comments[k].kind = "Ok" /\ comments[k].result = "Err"

\* C8: in process, a task whose comment fetch returned an application error
\* is presented to the walker, with no comments, as soon as the loop comes
\* to it; the loop goes past it like past any other task, and no error the
\* operation returns comes from a comment fetch.
C8_FailedFetchStillWalked ==
    (op = "process" /\ pc \in {"walking", "joining", "done"} /\ comments # <<>>)
        => /\ \A k \in 1..Len(comments) :
                  (FetchFailed(k) /\ i >= k)
                      => \E j \in 1..Len(walked) :
                             /\ walked[j].task = comments[k].task
                             /\ walked[j].comments = <<>>
                             /\ walked[j].outcome = "handle"
           /\ \A j \in 1..Len(walked) :
                  (\E k \in 1..Len(comments) :
                       FetchFailed(k) /\ comments[k].task = walked[j].task)
                      => walked[j].comments = <<>>
           /\ result.status = "Err"
                  => /\ result.text \in {"walker", "config"}
                     /\ i < Len(comments)
                     /\ comments[i + 1].kind = "Ok"
           /\ Succeeded => i = Len(comments)

\* The comments of the first task could not be fetched; it was walked with
\* none, then the next task with its comments, and the run succeeded.
C8_Witness ==
    /\ op = "process"
    /\ Len(comments) = MaxTasks
    /\ FetchFailed(1)
    /\ Len(walked) = MaxTasks
    /\ walked[1].task = comments[1].task
    /\ walked[1].comments = <<>>
    /\ walked[Len(walked)].comments # <<>>
    /\ Succeeded

----------------------------------------------------------------------------
(* C9 *)

\* C9: when prioritize, timebox, process or label has returned its success
\* message, every walker call has queued its handle and none of the queued
\* mutations is still in flight.
C9_SuccessAfterAllJoined ==
    (op \in WalkOps /\ Succeeded)
        => /\ Len(handles) = Len(walked)
           /\ \A k \in 1..Len(handles) : handles[k].state \in {"ok", "failed"}

\* timebox reported success with as many mutations as tasks, all ended.
C9_Witness ==
    /\ op = "timebox"
    /\ Succeeded
    /\ Len(handles) = MaxTasks
    /\ \A k \in 1..Len(handles) : handles[k].state = "ok"

----------------------------------------------------------------------------
(* C10 *)

\* The walk loop has run to its end: every task that had an entry with a
\* task was presented and gave a handle.
WalkedThrough ==
    /\ walked # <<>>
    /\ \A k \in 1..Len(walked) : walked[k].outcome = "handle"
    /\ Len(walked) =
           IF op = "process"
           THEN Cardinality({k \in 1..Len(comments) : comments[k].kind = "Ok"})
           ELSE Len(tasks)

\* C10: once every task has been walked without abort or walker error, the
\* only result prioritize, timebox, process and label return is the success
\* message, and they can return it as soon as every mutation has ended,
\* failed ones included.
C10_SuccessWhateverTheMutations ==
    (op \in WalkOps /\ WalkedThrough)
        => /\ pc = "done" => Succeeded
           /\ (pc = "joining" /\ \A k \in 1..Len(handles) : handles[k].state # "inflight")
                  => ENABLED (PrioritizeJoin \/ TimeboxJoin \/ ProcessJoin \/ LabelJoin)

\* process reported success although one of its mutations had failed.
C10_Witness ==
    /\ op = "process"
    /\ Succeeded
    /\ Len(handles) = MaxTasks
    /\ handles[1].state = "failed"
    /\ handles[Len(handles)].state = "ok"

----------------------------------------------------------------------------
(* C11 *)

\* C11: in every batch operation, when the task listing fails the operation
\* has returned the listing's error and nothing else was done: no comment
\* fetch, no walker call and no mutation.
C11_ListingErrorReturned ==
    (op \in BatchOps /\ listing = "err")
        => /\ pc = "done"
           /\ result = [status |-> "Err", text |-> "todoist"]
           /\ NothingIssued
           /\ active = <<>>
           /\ tasks = <<>>

\* process on a filter that has tasks to walk: the listing failed.
C11_Witness ==
    /\ op = "process"
    /\ flag.kind = "Filter"
    /\ Cardinality(Kept) = MaxTasks
    /\ listing = "err"
    /\ result.status = "Err"

----------------------------------------------------------------------------
(* C12 *)

\* The entries among the first n of the walk loop that are passed over
\* without a walker call.
Skipped(n) ==
    IF op = "process"
    THEN Cardinality({k \in 1..n : comments[k].kind = "JoinError"})
    ELSE 0

\* The loop is at an entry that holds a task.
NextIsTask == op # "process" \/ comments[i + 1].kind = "Ok"

\* C12: in timebox and process at most one walker call is in progress, and
\* while the loop is at entry i+1 every walker call for the entries before
\* it has returned; when the loop reaches a task the walker call for it can
\* begin whatever the state of the mutations queued so far, which are left
\* as they are.
C12_SequentialWalkQueuedMutations ==
    (op \in {"timebox", "process"} /\ pc = "walking")
        => /\ Len(active) <= 1
           /\ Len(walked) + Skipped(i) = i
           /\ \A k \in 1..Len(walked) : walked[k].outcome = "handle"
           /\ Len(handles) = Len(walked)
           /\ active # <<>> => NextIsTask
           /\ (active = <<>> /\ NextIsTask)
                  => ENABLED ((TimeboxWalk \/ ProcessWalk)
                              /\ active' # <<>> /\ handles' = handles)

\* The walker call for the second task is in progress while the mutation
\* queued for the first one is still in flight.
C12_Witness ==
    /\ op \in {"timebox", "process"}
    /\ active # <<>>
    /\ Len(walked) = 1
    /\ active[1].task # walked[1].task
    /\ handles[1].id = walked[1].task.id
    /\ handles[1].state = "inflight"

----------------------------------------------------------------------------
(* C13 *)

\* The tasks presented to the walker so far, the one of the call in
\* progress included.
PresentedTasks ==
    {walked[k].task : k \in 1..Len(walked)} \cup {active[k].task : k \in 1..Len(active)}

\* C13: in timebox, with a Project or a Filter selector alike, every task
\* presented to the duration walker has no duration.
C13_OnlyUntimedWalked ==
    op = "timebox" => \A t \in PresentedTasks : t.duration = 0

----------------------------------------------------------------------------
(* C14 *)

\* C14: in process, with a Project or a Filter selector alike, no task
\* presented to the walker, and none whose comments are fetched, is
\* scheduled for a future date.
C14_NoFutureTaskWalked ==
    op = "process"
        => /\ \A t \in PresentedTasks : ~t.future
           /\ \A k \in 1..Len(tasks) : ~tasks[k].future

----------------------------------------------------------------------------
(* C15 *)

\* The walker calls made so far, the one in progress included.
WalkerCalls ==
    {[config |-> walked[k].config, latest |-> walked[k].latest] : k \in 1..Len(walked)}
        \cup {[config |-> active[k].config, latest |-> active[k].latest] : k \in 1..Len(active)}

\* C15: in prioritize, timebox, process and label, every walker call gets
\* the configuration as it is stored when the call begins, the changes made
\* during the walks before it included.
C15_WalkerSeesLatestConfig ==
    op \in WalkOps => \A c \in WalkerCalls : c.config = c.latest

----------------------------------------------------------------------------
(* C16 *)

\* C16: in process, a task whose comment fetch ended in a JoinError is
\* never presented to the walker and gets no mutation; when the loop is at
\* its entry it goes on to the next one with the result still open; the
\* only errors process returns are those of the listing, of the reload and
\* of the walker; and a run that ended in success has walked every task
\* but those.
C16_JoinErrorSkipsTask ==
    op = "process"
        => /\ \A k \in 1..Len(comments) :
                  comments[k].kind = "JoinError"
                      => /\ \A t \in PresentedTasks : t.id # tasks[k].id
                         /\ \A h \in 1..Len(handles) : handles[h].id # tasks[k].id
           /\ (pc = "walking" /\ active = <<>> /\ comments[i + 1].kind = "JoinError")
                  => ENABLED (ProcessWalk /\ i' = i + 1 /\ result' = Running
                              /\ walked' = walked /\ handles' = handles)
           /\ result.status = "Err" => result.text \in {"todoist", "config", "walker"}
           /\ Succeeded => Len(walked) + Skipped(Len(comments)) = Len(comments)

\* The fetch for the first task ended in a JoinError, the second task was
\* walked and the run ended in success.
C16_Witness ==
    /\ op = "process"
    /\ Len(comments) = 2
    /\ comments[1].kind = "JoinError"
    /\ Len(walked) = 1
    /\ walked[1].task = tasks[2]
    /\ Succeeded

----------------------------------------------------------------------------
(* C17 *)

\* C17: in timebox and process, a walker call in progress can end in the
\* abort whatever the state of the mutations queued before it: "Exited" is
\* then returned at once and the queued mutations are left as they are.
\* After "Exited" there is one handle per task walked before the aborting
\* call, none of them cancelled, and one still in flight can run to its end.
C17_AbortLeavesMutationsRunning ==
    op \in {"timebox", "process"}
        => /\ (pc = "walking" /\ active # <<>>)
                  => ENABLED ((TimeboxReturn \/ ProcessReturn)
                              /\ pc' = "done"
                              /\ result' = [status |-> "Ok", text |-> "Exited"]
                              /\ handles' = handles)
           /\ Exited
                  => /\ pc = "done"
                     /\ Len(handles) = Len(walked) - 1
                     /\ \A k \in 1..Len(handles) :
                            /\ handles[k].id = walked[k].task.id
                            /\ handles[k].state \in {"inflight", "ok", "failed"}
                     /\ (\E k \in 1..Len(handles) : handles[k].state = "inflight")
                            => ENABLED MutationSettle

\* The user aborted at the second task while the mutation queued for the
\* first one was still in flight.
C17_Witness ==
    /\ op \in {"timebox", "process"}
    /\ Exited
    /\ Len(walked) = 2
    /\ Len(handles) = 1
    /\ handles[1].state = "inflight"

----------------------------------------------------------------------------
(* C18 *)

\* Task a comes before task b in the sorted order: by value, highest
\* first, and as fetched among tasks of equal value.
SortsBefore(a, b) ==
    \/ Value(a) > Value(b)
    \/ Value(a) = Value(b) /\ a.id < b.id

\* C18: in prioritize, timebox, process and label the tasks are presented
\* to the walker in sorted order and each is one the operation's filtering
\* keeps; a run that ended in success without a JoinError has presented
\* every kept task exactly once.
C18_WalkInSortedOrder ==
    op \in WalkOps
        => /\ PresentedTasks \subseteq Kept
           /\ \A j, k \in 1..Len(walked) :
                  j < k => SortsBefore(walked[j].task, walked[k].task)
           /\ \A k \in 1..Len(walked), a \in 1..Len(active) :
                  SortsBefore(walked[k].task, active[a].task)
           /\ (Succeeded /\ Skipped(Len(comments)) = 0)
                  => /\ Len(walked) = Cardinality(Kept)
                     /\ {walked[k].task : k \in 1..Len(walked)} = Kept

\* process: the task fetched second was walked first, and the comment
\* fetches ended in another order than they were spawned.
C18_Witness ==
    /\ op = "process"
    /\ overtaken
    /\ Succeeded
    /\ Len(walked) = 2
    /\ walked[1].task.id = 2
    /\ walked[2].task.id = 1

----------------------------------------------------------------------------
(* C19 *)

\* C19: in process there is at most one comment fetch per sorted task;
\* while a fetch is still to be spawned or still running no walker call has
\* been made; and from the first walker call on there is one settled fetch
\* per sorted task, whose outputs are the entries the loop goes through.
C19_FetchesSettledBeforeWalk ==
    op = "process"
        => /\ Len(fetches) <= Len(tasks)
           /\ (Len(fetches) < Len(tasks) \/ \E k \in 1..Len(fetches) : fetches[k] = Pending)
                  => /\ pc = "fetching"
                     /\ walked = <<>> /\ active = <<>> /\ handles = <<>>
           /\ (pc \in {"walking", "joining"} \/ walked # <<>> \/ active # <<>>)
                  => /\ Len(fetches) = Len(tasks)
                     /\ \A k \in 1..Len(fetches) : fetches[k] # Pending
                     /\ comments = fetches

\* The first walker call is in progress: the two fetches have ended, the
\* second before the first, one of them with an error.
C19_Witness ==
    /\ op = "process"
    /\ active # <<>>
    /\ walked = <<>>
    /\ Len(fetches) = 2
    /\ overtaken
    /\ \E k \in 1..2 : fetches[k].kind = "Ok" /\ fetches[k].result = "Err"

----------------------------------------------------------------------------
(* C20 *)

\* C20: import, when the quick-create call for the k-th non-empty line has
\* failed: the import has returned the gateway error, the k-th call is the
\* last one issued, and the calls issued are still those for the first k
\* non-empty lines of the file (the k-1 creations before it stand).
C20_ImportStopsAtFailedCall ==
    (op = "import" /\ failed # 0)
        => /\ pc = "done"
           /\ result = [status |-> "Err", text |-> "todoist"]
           /\ call = 0
           /\ Len(created) = failed
           /\ \A j \in 1..failed : created[j] = LineAt(StartOfLine(j))

\* Three lines in the file, the second call failed: one creation stands and
\* the third line has had no call.
C20_Witness ==
    /\ op = "import"
    /\ Cardinality(LineStarts) = 3
    /\ failed = 2
    /\ Len(created) = 2
    /\ pc = "done"

----------------------------------------------------------------------------
(* C21 *)

\* The show-project flags of the walker calls made so far, the one in
\* progress included.
ShowProjectFlags ==
    {walked[k].with_project : k \in 1..Len(walked)}
        \cup {active[k].with_project : k \in 1..Len(active)}

\* C21: in process every walker call gets the same show-project flag, the
\* one the selector decides (false for a project, true for a filter), the
\* calls for the tasks whose comments could not be fetched included.
C21_ShowProjectBySelector ==
    op = "process" => \A shown \in ShowProjectFlags : shown = WithProject(flag)

----------------------------------------------------------------------------
(* C22 *)

WalkerError == [status |-> "Err", text |-> "walker"]
ReloadError == [status |-> "Err", text |-> "config"]

\* C22: in prioritize, timebox, process and label the error of a walker
\* call, and in timebox and process the error of the reload before it, can
\* be returned whatever the state of the mutations queued so far, which are
\* left as they are. Once it is returned the run is over with that error as
\* its result: the failing call is the last walker call made (none after a
\* failed reload), every call before it queued its handle, and the entries
\* after it in the loop have had no walker call.
C22_WalkerErrorReturnedAtOnce ==
    op \in WalkOps
        => /\ (pc = "walking" /\ active # <<>>)
                  => ENABLED ((PrioritizeReturn \/ TimeboxReturn
                                  \/ ProcessReturn \/ LabelReturn)
                              /\ pc' = "done" /\ result' = WalkerError
                              /\ handles' = handles)
           /\ (pc = "walking" /\ active = <<>> /\ NextIsTask
                  /\ op \in {"timebox", "process"})
                  => ENABLED ((TimeboxWalk \/ ProcessWalk)
                              /\ pc' = "done" /\ result' = ReloadError
                              /\ active' = <<>> /\ handles' = handles)
           /\ \A k \in 1..Len(walked) :
                  walked[k].outcome = "error"
                      => k = Len(walked) /\ result = WalkerError
           /\ result = WalkerError
                  => /\ pc = "done" /\ active = <<>>
                     /\ walked[Len(walked)].outcome = "error"
                     /\ Len(walked) + Skipped(i) = i + 1
                     /\ Len(handles) = Len(walked) - 1
                     /\ \A k \in 1..Len(handles) : handles[k].id = walked[k].task.id
           /\ result = ReloadError
                  => /\ pc = "done" /\ active = <<>>
                     /\ op \in {"timebox", "process"}
                     /\ Len(walked) + Skipped(i) = i
                     /\ Len(handles) = Len(walked)
                     /\ \A k \in 1..Len(walked) : walked[k].outcome = "handle"

\* The walker call for the second task returned an error while the
\* mutation queued for the first one was still in flight.
C22_Witness ==
    /\ op \in WalkOps
    /\ result = WalkerError
    /\ Len(walked) = 2
    /\ Len(handles) = 1
    /\ handles[1].state = "inflight"

====
